---- MODULE Spec2Model ----
(***************************************************************************)
(* Model of unsupervised_aae_deterministic_w_discriminator.py: the data    *)
(* pipeline (shuffle + batch), train_step with its five sub-steps, and the *)
(* module-level training loop (accumulators, progress line, periodic       *)
(* visualization).                                                         *)
(*                                                                         *)
(* Abstractions.  A training image is its index in x_train.  The           *)
(* parameters of a network are abstracted to the number of optimizer       *)
(* updates applied to them (0 = the initial values).  A tensor is a record *)
(* that carries its shape (rows, last-axis size), the parameter versions   *)
(* of the networks it was computed with, and, for logits and accuracies,   *)
(* its numeric content.  Losses are symbolic terms over such tensors.      *)
(* Wall-clock times of the progress line are left out.  train_step is a     *)
(* tf.function: its stateful operations take effect in program order, one  *)
(* sub-step after the other, and an exception raised in it ends the call.  *)
(***************************************************************************)
EXTENDS Integers, Sequences, FiniteSets, TLC

\* ---------------------------------------------------------------- bounds
\* Largest number of training images (the loader hands back 60000).
MaxTrain == 3
\* Shuffle buffer, scaled with the training set (train_buf = 60000 = |x_train|).
train_buf == 3
\* Batch size, scaled from 256.
batch_size == 2
\* Number of iterations of the dataset followed by SpecData.
MaxDataEpochs == 4

\* ------------------------------------------------------ program constants
n_epochs == 200
z_dim == 2
\* epoch % 10 == 0
viz_period == 10
\* Raw discriminator scores, as multiples of 1/2 around the BinaryAccuracy
\* threshold of 0.5: 0 stands for a score <= 0.5, 1 for a score > 0.5.
Logit == {0, 1}

VARIABLES
    x_train,          \* number of training images; the images are 1..x_train
    epoch,            \* loop variable of `for epoch in range(n_epochs)`
    pc,               \* position of the script
    it,               \* dataset iterator: the batches still to be yielded
    yielded,          \* batches yielded by the iterator of this epoch
    sizes_hist,       \* batch-size sequences of the completed iterations
    batch_x,          \* argument of the running train_step call
    encoder, decoder, discriminator_z, discriminator_x,   \* parameter versions
    accuracy,         \* state of the BinaryAccuracy metric: [total, count]
    locals,           \* local names of the running train_step call
    globals,          \* module-level names bound by line 275
    avg,              \* the seven epoch_*_avg accumulators
    printed,          \* progress lines written to standard output
    artifacts,        \* files written by plt.savefig
    raised,           \* exception propagating out of the script, or "none"
    calls,            \* number of train_step calls entered
    at_entry,         \* parameter versions on entry to the running call
    after_ae,         \* parameter versions right after its autoencoder update
    trace,            \* sub-steps the running call has executed, in order
    failed_epoch      \* epoch in which the exception was raised

vars == <<x_train, epoch, pc, it, yielded, sizes_hist, batch_x, encoder, decoder,
          discriminator_z, discriminator_x, accuracy, locals, globals, avg,
          printed, artifacts, raised, calls, at_entry, after_ae, trace,
          failed_epoch>>

loop_vars == <<batch_x, encoder, decoder, discriminator_z, discriminator_x,
               accuracy, locals, globals, avg, printed, artifacts, raised,
               calls, at_entry, after_ae, trace, failed_epoch>>

Min(a, b) == IF a < b THEN a ELSE b

Empty == [x \in {} |-> x]

\* ----------------------------------------------------------- data provider
\* tf.data.Dataset.from_tensor_slices(x_train): the images in order.
from_tensor_slices(n) == [i \in 1..n |-> i]

\* Dataset.shuffle: a buffer of buffer_size elements is filled from the input;
\* each output is one element of the buffer, replaced by the next input.
RECURSIVE ShuffleOut(_, _)
ShuffleOut(buf, rest) ==
    IF buf = {} THEN {<< >>}
    ELSE UNION { LET refill == IF rest = << >> THEN {} ELSE {Head(rest)}
                     tl == IF rest = << >> THEN << >> ELSE Tail(rest)
                 IN  { <<e>> \o s : s \in ShuffleOut((buf \ {e}) \cup refill, tl) }
               : e \in buf }

shuffle(ds) ==
    LET k == Min(train_buf, Len(ds))
    IN  ShuffleOut({ ds[i] : i \in 1..k }, SubSeq(ds, k + 1, Len(ds)))

\* A mutant of batch: drop_remainder=True.
RECURSIVE batch_drop_remainder(_)
batch_drop_remainder(s) ==
    IF Len(s) < batch_size THEN << >>
    ELSE <<SubSeq(s, 1, batch_size)>> \o batch_drop_remainder(SubSeq(s, batch_size + 1, Len(s)))

\* Dataset.batch(batch_size): consecutive chunks; drop_remainder defaults to
\* False, so a final partial chunk is a batch too.
RECURSIVE batch(_)
batch(s) ==
    IF s = << >> THEN << >>
    ELSE <<SubSeq(s, 1, Min(batch_size, Len(s)))>> \o batch(SubSeq(s, batch_size + 1, Len(s)))

\* iter(train_dataset): a fresh shuffle of the whole training set, batched.
NewIterator ==
    /\ \E s \in shuffle(from_tensor_slices(x_train)) : it' = batch(s)
    /\ yielded' = << >>

\* next(iterator) when a batch is left.
YieldBatch ==
    /\ it # << >>
    /\ yielded' = Append(yielded, Head(it))
    /\ it' = Tail(it)

\* next(iterator) raising StopIteration: the for loop over the dataset ends.
Exhausted ==
    /\ it = << >>
    /\ sizes_hist' = sizes_hist \cup { [i \in 1..Len(yielded) |-> Len(yielded[i])] }

\* ------------------------------------------------------------------ tensors
Tensor(src, rows, dim, enc, dec, val) ==
    [src |-> src, step |-> "", rows |-> rows, dim |-> dim,
     enc |-> enc, dec |-> dec, val |-> val]

\* The batch handed to train_step: rows images of one channel.
Input(b) == Tensor("batch_x", Len(b), 1, {}, {}, << >>)

\* Assignment of local names by one sub-step.
BindAll(f, g, step) ==
    [x \in DOMAIN f \cup DOMAIN g |->
        IF x \in DOMAIN g THEN [g[x] EXCEPT !.step = step] ELSE f[x]]

\* All score vectors a discriminator can give r rows.
Scores(r) == [1..r -> Logit]

\* ------------------------------------------------------------------- models
\* encoder(x, training=True): one latent code of z_dim values per row, computed
\* with the encoder parameters as they are now.
encoder_call(x) == Tensor("encoder", x.rows, z_dim, {encoder}, x.dec, << >>)

\* decoder(z, training=True): one image per latent code.
decoder_call(z) == Tensor("decoder", z.rows, 1, z.enc, {decoder}, << >>)

\* discriminator_z(z, training=True): one raw score per row.
discriminator_z_call(z, scores) ==
    Tensor("discriminator_z", z.rows, 1, z.enc, z.dec, scores)

\* discriminator_x(x, training=True): one raw score per row.
discriminator_x_call(x, scores) ==
    Tensor("discriminator_x", x.rows, 1, x.enc, x.dec, scores)

\* tf.random.normal([batch_size, 1, 1, z_dim]).
random_normal == Tensor("normal", batch_size, z_dim, {}, {}, << >>)

\* ------------------------------------------------------------ loss functions
autoencoder_loss(inputs, reconstruction) ==
    Tensor("mse", 0, 0, reconstruction.enc, reconstruction.dec, << >>)

discriminator_loss(real_output, fake_output) ==
    Tensor("bce_real+bce_fake", 0, 0, real_output.enc \cup fake_output.enc,
           real_output.dec \cup fake_output.dec, << >>)

generator_loss(fake_output) ==
    Tensor("bce_ones", 0, 0, fake_output.enc, fake_output.dec, << >>)

\* ----------------------------------------------------------------- accuracy
\* BinaryAccuracy thresholds y_pred at 0.5.
Predicted(l) == IF l = 1 THEN 1 ELSE 0

\* Number of rows classified as labelled: the real rows are labelled 1, the
\* fake rows 0.
Matches(real_output, fake_output) ==
    Cardinality({ i \in 1..real_output.rows : Predicted(real_output.val[i]) = 1 })
    + Cardinality({ i \in 1..fake_output.rows : Predicted(fake_output.val[i]) = 0 })

\* accuracy(y_true, y_pred) is update_state followed by result(): the metric
\* object is created once (line 150) and never reset.
accuracy_update(real_output, fake_output) ==
    [total |-> accuracy.total + Matches(real_output, fake_output),
     count |-> accuracy.count + real_output.rows + fake_output.rows]

accuracy_result(state) ==
    Tensor("accuracy", 0, 0, {}, {}, <<state.total, state.count>>)

\* ---------------------------------------------------------------- optimizers
\* optimizer.apply_gradients: one update of the parameters.
apply_gradients(v) == v + 1

\* Lines 210, 222, 241 and 255 are commented out.
dc_z_update_applied == FALSE
gen_z_update_applied_on == TRUE
gen_z_update_applied == FALSE
dc_x_update_applied == FALSE
gen_x_update_applied == FALSE

\* ---------------------------------------------------------------- train_step
Order == <<"ae", "dc_z", "gen_z", "dc_x", "gen_x">>

\* Sub-step 1, lines 182-190.
Autoencoder ==
    /\ pc = "ae"
    /\ LET encoder_output == encoder_call(Input(batch_x))
           decoder_output == decoder_call(encoder_output)
           ae_loss == autoencoder_loss(Input(batch_x), decoder_output)
       IN  locals' = BindAll(locals,
                             "encoder_output" :> encoder_output
                             @@ "decoder_output" :> decoder_output
                             @@ "ae_loss" :> ae_loss, "ae")
    /\ encoder' = apply_gradients(encoder)
    /\ decoder' = apply_gradients(decoder)
    /\ after_ae' = [enc |-> encoder', dec |-> decoder']
    /\ trace' = Append(trace, "ae")
    /\ pc' = "dc_z"
    /\ UNCHANGED <<x_train, epoch, it, yielded, sizes_hist, batch_x,
                   discriminator_z, discriminator_x, accuracy, globals, avg,
                   printed, artifacts, raised, calls, at_entry, failed_epoch>>

\* A mutant of line 197: the encoder output of the autoencoder tape is reused.
dc_z_encoder_output_stale == locals["encoder_output"]

\* Line 197: the encoder is run again on the batch.
dc_z_encoder_output == encoder_call(Input(batch_x))

\* Sub-step 2, lines 195-210.
DiscriminatorZ ==
    /\ pc = "dc_z"
    /\ LET real_distribution == random_normal
           encoder_output == dc_z_encoder_output
       IN  \E sr \in Scores(real_distribution.rows), sf \in Scores(encoder_output.rows) :
             LET dc_z_real == discriminator_z_call(real_distribution, sr)
                 dc_z_fake == discriminator_z_call(encoder_output, sf)
                 dc_z_loss == discriminator_loss(dc_z_real, dc_z_fake)
                 state == accuracy_update(dc_z_real, dc_z_fake)
             IN  /\ accuracy' = state
                 /\ locals' = BindAll(locals,
                                 "real_distribution" :> real_distribution
                                 @@ "encoder_output" :> encoder_output
                                 @@ "dc_z_real" :> dc_z_real
                                 @@ "dc_z_fake" :> dc_z_fake
                                 @@ "dc_z_loss" :> dc_z_loss
                                 @@ "dc_z_acc" :> accuracy_result(state), "dc_z")
    /\ discriminator_z' = IF dc_z_update_applied
                          THEN apply_gradients(discriminator_z) ELSE discriminator_z
    /\ trace' = Append(trace, "dc_z")
    /\ pc' = "gen_z"
    /\ UNCHANGED <<x_train, epoch, it, yielded, sizes_hist, batch_x, encoder,
                   decoder, discriminator_x, globals, avg, printed, artifacts,
                   raised, calls, at_entry, after_ae, failed_epoch>>

\* Sub-step 3, lines 214-222.  The forward passes repeat those of sub-step 2 on
\* the same batch, so the scores are the same.
GeneratorZ ==
    /\ pc = "gen_z"
    /\ LET encoder_output == encoder_call(Input(batch_x))
           dc_z_fake == discriminator_z_call(encoder_output, locals["dc_z_fake"].val)
           gen_z_loss == generator_loss(dc_z_fake)
       IN  locals' = BindAll(locals,
                             "encoder_output" :> encoder_output
                             @@ "dc_z_fake" :> dc_z_fake
                             @@ "gen_z_loss" :> gen_z_loss, "gen_z")
    /\ encoder' = IF gen_z_update_applied THEN apply_gradients(encoder) ELSE encoder
    /\ trace' = Append(trace, "gen_z")
    /\ pc' = "dc_x"
    /\ UNCHANGED <<x_train, epoch, it, yielded, sizes_hist, batch_x, decoder,
                   discriminator_z, discriminator_x, accuracy, globals, avg,
                   printed, artifacts, raised, calls, at_entry, after_ae,
                   failed_epoch>>

\* Sub-step 4, lines 226-241.  Line 237 assigns the accuracy to dc_z_acc.
DiscriminatorX ==
    /\ pc = "dc_x"
    /\ LET encoder_output == encoder_call(Input(batch_x))
           decoder_output == decoder_call(encoder_output)
       IN  \E sr \in Scores(Len(batch_x)), sf \in Scores(decoder_output.rows) :
             LET d_x_real == discriminator_x_call(Input(batch_x), sr)
                 d_x_fake == discriminator_x_call(decoder_output, sf)
                 dc_x_loss == discriminator_loss(d_x_real, d_x_fake)
                 state == accuracy_update(d_x_real, d_x_fake)
             IN  /\ accuracy' = state
                 /\ locals' = BindAll(locals,
                                 "encoder_output" :> encoder_output
                                 @@ "decoder_output" :> decoder_output
                                 @@ "d_x_real" :> d_x_real
                                 @@ "d_x_fake" :> d_x_fake
                                 @@ "dc_x_loss" :> dc_x_loss
                                 @@ "dc_z_acc" :> accuracy_result(state), "dc_x")
    /\ discriminator_x' = IF dc_x_update_applied
                          THEN apply_gradients(discriminator_x) ELSE discriminator_x
    /\ trace' = Append(trace, "dc_x")
    /\ pc' = "gen_x"
    /\ UNCHANGED <<x_train, epoch, it, yielded, sizes_hist, batch_x, encoder,
                   decoder, discriminator_z, globals, avg, printed, artifacts,
                   raised, calls, at_entry, after_ae, failed_epoch>>

\* Sub-step 5, lines 245-255.
GeneratorX ==
    /\ pc = "gen_x"
    /\ LET encoder_output == encoder_call(Input(batch_x))
           decoder_output == decoder_call(encoder_output)
           d_x_fake == discriminator_x_call(decoder_output, locals["d_x_fake"].val)
           gen_x_loss == generator_loss(d_x_fake)
       IN  locals' = BindAll(locals,
                             "encoder_output" :> encoder_output
                             @@ "decoder_output" :> decoder_output
                             @@ "d_x_fake" :> d_x_fake
                             @@ "gen_x_loss" :> gen_x_loss, "gen_x")
    /\ decoder' = IF gen_x_update_applied THEN apply_gradients(decoder) ELSE decoder
    /\ trace' = Append(trace, "gen_x")
    /\ pc' = "ret"
    /\ UNCHANGED <<x_train, epoch, it, yielded, sizes_hist, batch_x, encoder,
                   discriminator_z, discriminator_x, accuracy, globals, avg,
                   printed, artifacts, raised, calls, at_entry, after_ae,
                   failed_epoch>>

\* ------------------------------------------------------------- training loop
MetricNames == {"ae_loss", "dc_z_loss", "dc_z_acc", "gen_z_loss", "dc_x_loss",
                "dc_x_acc", "gen_x_loss"}

\* tf.metrics.Mean(): the values fed so far (their sum is the total) and their
\* number; result() is the total divided by the count.
NewMean == [vals |-> << >>, count |-> 0]

MeanUpdate(m, v) == [vals |-> Append(m.vals, v), count |-> m.count + 1]

\* A name read in train_step: a local of the call if the function assigns it,
\* else the module-level name.
Bound(name) == name \in DOMAIN locals \/ name \in DOMAIN globals

Lookup(name) == IF name \in DOMAIN locals THEN locals[name] ELSE globals[name]

\* A mutant of the script: the exception is caught and the loop goes on.
uncaught_pc_swallowed == "fetch"

\* No statement of the script catches an exception: it ends the run.
uncaught_pc == "aborted"

\* `for epoch in range(n_epochs)` enters an epoch: lines 263-274.
EpochStart ==
    /\ pc = "loop"
    /\ epoch < n_epochs
    /\ avg' = [m \in MetricNames |-> NewMean]
    /\ NewIterator
    /\ pc' = "fetch"
    /\ UNCHANGED <<x_train, epoch, sizes_hist, batch_x, encoder, decoder,
                   discriminator_z, discriminator_x, accuracy, locals, globals,
                   printed, artifacts, raised, calls, at_entry, after_ae, trace,
                   failed_epoch>>

\* range(n_epochs) is exhausted: the script ends.
LoopExit ==
    /\ pc = "loop"
    /\ epoch = n_epochs
    /\ pc' = "done"
    /\ UNCHANGED <<x_train, epoch, it, yielded, sizes_hist>>
    /\ UNCHANGED loop_vars

\* Line 274 yields a batch and line 275 calls train_step on it.
FetchBatch ==
    /\ pc = "fetch"
    /\ YieldBatch
    /\ batch_x' = Head(it)
    /\ calls' = calls + 1
    /\ at_entry' = [enc |-> encoder, dec |-> decoder]
    /\ locals' = Empty
    /\ trace' = << >>
    /\ pc' = "ae"
    /\ UNCHANGED <<x_train, epoch, sizes_hist, encoder, decoder, discriminator_z,
                   discriminator_x, accuracy, globals, avg, printed, artifacts,
                   raised, after_ae, failed_epoch>>

\* Line 274 when the dataset has no batch left.
EndOfBatches ==
    /\ pc = "fetch"
    /\ Exhausted
    /\ pc' = "epoch_end"
    /\ UNCHANGED <<x_train, epoch, it, yielded>>
    /\ UNCHANGED loop_vars

\* Line 257 evaluates the seven returned names; lines 275-283 bind them at
\* module level and feed each to its accumulator.  A name that is bound
\* nowhere raises NameError.
Return ==
    /\ pc = "ret"
    /\ IF \A name \in MetricNames : Bound(name)
       THEN /\ globals' = [name \in MetricNames |-> Lookup(name)]
            /\ avg' = [m \in MetricNames |-> MeanUpdate(avg[m], Lookup(m))]
            /\ pc' = "fetch"
            /\ UNCHANGED <<raised, failed_epoch>>
       ELSE /\ raised' = "NameError"
            /\ failed_epoch' = epoch
            /\ pc' = uncaught_pc
            /\ UNCHANGED <<globals, avg>>
    /\ UNCHANGED <<x_train, epoch, it, yielded, sizes_hist, batch_x, encoder,
                   decoder, discriminator_z, discriminator_x, accuracy, locals,
                   printed, artifacts, calls, at_entry, after_ae, trace>>

\* Lines 286-297: the progress line of the epoch, with the seven means.
ProgressLine ==
    /\ pc = "epoch_end"
    /\ printed' = Append(printed, [epoch |-> epoch, eta_epochs |-> n_epochs - epoch,
                                   means |-> avg])
    /\ pc' = "viz"
    /\ UNCHANGED <<x_train, epoch, it, yielded, sizes_hist, batch_x, encoder,
                   decoder, discriminator_z, discriminator_x, accuracy, locals,
                   globals, avg, artifacts, raised, calls, at_entry, after_ae,
                   trace, failed_epoch>>

\* 'epoch_%d.png' % epoch: the decimal digits of the epoch.
RECURSIVE Decimal(_)
Decimal(k) == IF k < 10 THEN <<k>> ELSE Decimal(k \div 10) \o <<k % 10>>

OutputDirs == {"latent_space", "reconstruction", "sampling"}

\* Lines 301-366: the three figures of an epoch divisible by 10.
Visualize ==
    /\ pc = "viz"
    /\ epoch % viz_period = 0
    /\ artifacts' = artifacts \cup { [dir |-> d, file |-> Decimal(epoch)] : d \in OutputDirs }
    /\ epoch' = epoch + 1
    /\ pc' = "loop"
    /\ UNCHANGED <<x_train, it, yielded, sizes_hist, batch_x, encoder, decoder,
                   discriminator_z, discriminator_x, accuracy, locals, globals,
                   avg, printed, raised, calls, at_entry, after_ae, trace,
                   failed_epoch>>

\* Line 301 on any other epoch.
NoVisualize ==
    /\ pc = "viz"
    /\ epoch % viz_period # 0
    /\ epoch' = epoch + 1
    /\ pc' = "loop"
    /\ UNCHANGED <<x_train, it, yielded, sizes_hist, artifacts>>
    /\ UNCHANGED <<batch_x, encoder, decoder, discriminator_z, discriminator_x,
                   accuracy, locals, globals, avg, printed, raised, calls,
                   at_entry, after_ae, trace, failed_epoch>>

\* ------------------------------------------------------------ specifications
\* The state at line 262: models built, metric and optimizers created, no epoch
\* run yet.  The training set is whatever the loader handed back: its size is
\* drawn from 0..MaxTrain (an empty set makes every epoch a loop over no batch).
Init ==
    /\ x_train \in 0..MaxTrain
    /\ epoch = 0
    /\ pc = "loop"
    /\ it = << >>
    /\ yielded = << >>
    /\ sizes_hist = {}
    /\ batch_x = << >>
    /\ encoder = 0
    /\ decoder = 0
    /\ discriminator_z = 0
    /\ discriminator_x = 0
    /\ accuracy = [total |-> 0, count |-> 0]
    /\ locals = Empty
    /\ globals = Empty
    /\ avg = [m \in MetricNames |-> NewMean]
    /\ printed = << >>
    /\ artifacts = {}
    /\ raised = "none"
    /\ calls = 0
    /\ at_entry = [enc |-> 0, dec |-> 0]
    /\ after_ae = [enc |-> 0, dec |-> 0]
    /\ trace = << >>
    /\ failed_epoch = 0

Next ==
    \/ EpochStart
    \/ LoopExit
    \/ FetchBatch
    \/ EndOfBatches
    \/ Autoencoder
    \/ DiscriminatorZ
    \/ GeneratorZ
    \/ DiscriminatorX
    \/ GeneratorX
    \/ Return
    \/ ProgressLine
    \/ Visualize
    \/ NoVisualize

Spec == Init /\ [][Next]_vars

\* The data provider alone: train_dataset iterated to its end, MaxDataEpochs
\* times, by a consumer that does nothing with the batches.
DataStart ==
    /\ pc = "loop"
    /\ epoch < MaxDataEpochs
    /\ NewIterator
    /\ pc' = "fetch"
    /\ UNCHANGED <<x_train, epoch, sizes_hist>>
    /\ UNCHANGED loop_vars

DataNext ==
    /\ pc = "fetch"
    /\ YieldBatch
    /\ UNCHANGED <<x_train, epoch, pc, sizes_hist>>
    /\ UNCHANGED loop_vars

DataStop ==
    /\ pc = "fetch"
    /\ Exhausted
    /\ epoch' = epoch + 1
    /\ pc' = "loop"
    /\ UNCHANGED <<x_train, it, yielded>>
    /\ UNCHANGED loop_vars

NextData == DataStart \/ DataNext \/ DataStop

SpecData == Init /\ [][NextData]_vars

\* ------------------------------------------------------------------- claims
\* The script has stopped: range(n_epochs) is exhausted or an exception ended it.
RunOver == pc \in {"done", "aborted"}

InCall == pc \in {"ae", "dc_z", "gen_z", "dc_x", "gen_x", "ret"}

LaterSteps == {"dc_z", "gen_z", "dc_x", "gen_x"}

\* a/b = c/d, for fractions given as <<numerator, denominator>>.
FracEq(p, q) == p[1] * q[2] = q[1] * p[2]

\* The number a sequence of decimal digits writes.
RECURSIVE ParseDecimal(_)
ParseDecimal(ds) ==
    IF ds = << >> THEN 0
    ELSE 10 * ParseDecimal(SubSeq(ds, 1, Len(ds) - 1)) + ds[Len(ds)]

\* C1: a run of n_epochs epochs leaves the three figures epoch_<k>.png for
\* exactly the epochs k in [0, n_epochs) with k mod 10 = 0, each under its own
\* path.
C1_VisualizationEpochs ==
    RunOver =>
        artifacts = { [dir |-> d, file |-> Decimal(k)] :
                        d \in OutputDirs, k \in { j \in 0..(n_epochs - 1) : j % 10 = 0 } }

\* The sub-step that computes each returned value.
Producer ==
    [name \in MetricNames |->
        CASE name = "ae_loss" -> "ae"
          [] name \in {"dc_z_loss", "dc_z_acc"} -> "dc_z"
          [] name = "gen_z_loss" -> "gen_z"
          [] name \in {"dc_x_loss", "dc_x_acc"} -> "dc_x"
          [] OTHER -> "gen_x"]

\* C2: when train_step reaches its return statement, each of the seven
\* returned names holds the value computed by its own sub-step of this call.
C2_ReturnsOwnValues ==
    pc = "ret" =>
        \A name \in MetricNames :
            /\ name \in DOMAIN locals
            /\ locals[name].step = Producer[name]

\* C3: the run stops only after Epoch(0), ..., Epoch(n_epochs - 1) have been
\* executed in that order, one progress line each.
C3_RunsAllEpochs ==
    RunOver =>
        /\ pc = "done"
        /\ epoch = n_epochs
        /\ Len(printed) = n_epochs
        /\ \A i \in 1..Len(printed) : printed[i].epoch = i - 1

\* C4: between two batches, at the end of an epoch and when the run stops,
\* every accumulator has been updated once for each batch the epoch has handed
\* to train_step, and every epoch that was started has had its means printed.
C4_AccumulatorsPerBatch ==
    /\ pc \in {"fetch", "epoch_end", "aborted"} =>
          \A m \in MetricNames : avg[m].count = Len(yielded)
    /\ \A i \in 1..Len(printed) :
          \A m \in MetricNames :
             printed[i].means[m].count = Len(printed[i].means[m].vals)
    /\ RunOver /\ calls > 0 => Len(printed) > 0

\* The batches yielded so far hold each image at most once.
NoImageTwice ==
    \A i, k \in 1..Len(yielded) :
        \A j \in 1..Len(yielded[i]) :
            \A l \in 1..Len(yielded[k]) :
                yielded[i][j] = yielded[k][l] => (i = k /\ j = l)

\* C5: the batches of an epoch partition the training set: every image is in
\* exactly one batch, every batch but the last has batch_size images, the last
\* has between 1 and batch_size, and every epoch yields the same batch sizes.
C5_BatchesPartition ==
    /\ NoImageTwice
    /\ \A i \in 1..Len(yielded) :
          /\ Len(yielded[i]) \in 1..batch_size
          /\ (i < Len(yielded) \/ it # << >>) => Len(yielded[i]) = batch_size
    /\ (pc = "loop" /\ epoch > 0) =>
          /\ \A img \in 1..x_train :
                \E i \in 1..Len(yielded) : \E j \in 1..Len(yielded[i]) :
                    yielded[i][j] = img
          /\ Cardinality(sizes_hist) = 1

\* C5 witness: a second epoch has ended whose last batch is a partial one that
\* follows a full one.
C5_Witness ==
    /\ pc = "loop"
    /\ epoch >= 2
    /\ Len(yielded) >= 2
    /\ Len(yielded[Len(yielded)]) < batch_size
    /\ Len(yielded[1]) = batch_size

\* C6: the Gaussian sample of the latent-discriminator sub-step has as many
\* rows as the batch and the latent size of the encoder output, so the real
\* and fake scores are equally many.
C6_RealSampleMatchesBatch ==
    "real_distribution" \in DOMAIN locals =>
        /\ locals["real_distribution"].rows = Len(batch_x)
        /\ locals["real_distribution"].dim = locals["encoder_output"].dim
        /\ locals["dc_z_real"].rows = locals["dc_z_fake"].rows

\* Autoencoder sub-steps executed so far.
AeRuns == IF pc = "ae" THEN calls - 1 ELSE calls

\* C7: the discriminators keep their initial parameters, and the encoder and
\* the decoder have been updated exactly once per autoencoder sub-step and by
\* nothing else.
C7_OnlyAutoencoderUpdates ==
    /\ discriminator_z = 0
    /\ discriminator_x = 0
    /\ encoder = AeRuns
    /\ decoder = AeRuns
    /\ InCall /\ pc # "ae" => /\ encoder = apply_gradients(at_entry.enc)
                              /\ decoder = apply_gradients(at_entry.dec)

\* C7 witness: all five sub-steps of a call have run.
C7_Witness ==
    /\ pc = "ret"
    /\ trace = Order
    /\ encoder = 1
    /\ decoder = 1
    /\ discriminator_z = 0
    /\ discriminator_x = 0

\* C8: the sub-steps of a call run in the order ae, dc_z, gen_z, dc_x, gen_x;
\* the autoencoder update is applied first, and every value a later sub-step
\* computes with the encoder or the decoder uses the parameters as they are
\* after that update.
C8_LaterStepsSeeUpdate ==
    /\ Len(trace) <= Len(Order)
    /\ \A i \in 1..Len(trace) : trace[i] = Order[i]
    /\ (InCall /\ pc # "ret") => pc = Order[Len(trace) + 1]
    /\ Len(trace) >= 1 => /\ after_ae.enc # at_entry.enc
                          /\ after_ae.dec # at_entry.dec
    /\ \A name \in DOMAIN locals :
          locals[name].step \in LaterSteps =>
              /\ locals[name].enc \subseteq {after_ae.enc}
              /\ locals[name].dec \subseteq {after_ae.dec}

\* C8 witness: the call is at its return and the scores of both discriminators
\* on the fake halves were computed with the updated encoder and decoder.
C8_Witness ==
    /\ pc = "ret"
    /\ trace = Order
    /\ locals["dc_z_fake"].enc = {after_ae.enc}
    /\ locals["d_x_fake"].enc = {after_ae.enc}
    /\ locals["d_x_fake"].dec = {after_ae.dec}
    /\ after_ae.enc = at_entry.enc + 1

\* C9: the accuracy a discriminator sub-step produces is the share of rows of
\* its own real and fake scores that are classified as labelled.
C9_AccuracyOfOwnLogits ==
    "dc_z_acc" \in DOMAIN locals =>
        /\ locals["dc_z_acc"].step = "dc_z" =>
              FracEq(locals["dc_z_acc"].val,
                     <<Matches(locals["dc_z_real"], locals["dc_z_fake"]),
                       locals["dc_z_real"].rows + locals["dc_z_fake"].rows>>)
        /\ locals["dc_z_acc"].step = "dc_x" =>
              FracEq(locals["dc_z_acc"].val,
                     <<Matches(locals["d_x_real"], locals["d_x_fake"]),
                       locals["d_x_real"].rows + locals["d_x_fake"].rows>>)

\* C10: once a train_step call has raised, the run is aborted: nothing more
\* can happen, the batches still in the iterator stay there, and no progress
\* line and no figure exists for the failing epoch or a later one.
C10_ErrorIsFatal ==
    raised # "none" =>
        /\ pc = "aborted"
        /\ ~ENABLED Next
        /\ calls = Len(yielded)
        /\ \A i \in 1..Len(printed) : printed[i].epoch < failed_epoch
        /\ \A a \in artifacts : ParseDecimal(a.file) < failed_epoch

\* C10 witness: the run was aborted with batches of the epoch left unprocessed.
C10_Witness ==
    /\ raised = "NameError"
    /\ pc = "aborted"
    /\ it # << >>
    /\ printed = << >>
    /\ artifacts = {}

====
